---- MODULE Spec2Model ----
(***************************************************************************)
(* Model of fuse_pxebootfs.py: the FUSE request handlers of PXEBootFS,     *)
(* the node provisioning sequence (setup_node), the node listing with its  *)
(* cleanup (get_node_list), the fsid counter, the template renderer and    *)
(* the hex <-> dotted-quad codec.                                          *)
(*                                                                         *)
(* Python strings are sequences of one-character strings.  The FUSE        *)
(* dispatcher delivers calls on several threads; a handler is split into   *)
(* one step per access to shared state (a system call or an attribute of   *)
(* the PXEBootFS object), so the threads interleave at those points.       *)
(***************************************************************************)
EXTENDS Integers, Sequences, FiniteSets, Bags, TLC

\* ------------------------------------------------------------------------
\* Bounds of the model
\* ------------------------------------------------------------------------
\* number of dispatcher threads delivering calls concurrently
NumThreads == 2
\* total number of handler calls started in one behaviour
MaxCalls == 2

\* ------------------------------------------------------------------------
\* String literals
\* ------------------------------------------------------------------------
MARKER == <<"<","N","O","D","E",">">>
BY_IP == <<"b","y","-","i","p">>
PFX_BYIP == <<"/","b","y","-","i","p">>
PFX_BYIP_SLASH == <<"/","b","y","-","i","p","/">>
conf_node_dir == <<"/","n">>

P_ROOT == <<"/">>
P_BYIP == <<"/","b","y","-","i","p">>
P_BYIP_SLASH == <<"/","b","y","-","i","p","/">>
P_BYIP_ADDR == <<"/","b","y","-","i","p","/","1","0",".","1","1",".","1","2",".","1","3">>
P_BYIP_NAME == <<"/","b","y","-","i","p","/","f","o","o">>
P_BYIPX == <<"/","b","y","-","i","p","x">>
P_NODE1 == <<"/","0","A","0","B","0","C","0","D">>
P_NODE_OLD == <<"/","A","A","B","B","C","C","D","D">>
P_NODE_BAD == <<"/","0","A","0","B","0","C","0","G">>
P_DEEP == <<"/","x","/","0","A","0","B","0","C","0","D">>
P_NOPE == <<"/","n","o","p","e">>

ID1 == <<"0","A","0","B","0","C","0","D">>
ID_OLD == <<"A","A","B","B","C","C","D","D">>
ID_BAD == <<"0","A","0","B","0","C","0","G">>
STRAY == <<"R","E","A","D","M","E">>

\* template files offered at startup: no marker, one marker, two markers
TPL0 == <<"k","=","v">>
TPL1 == <<"r","=","<","N","O","D","E",">",";">>
TPL2 == <<"<","N","O","D","E",">","/","<","N","O","D","E",">">>

\* the exception a handler lets escape, as a value no string equals
ValueError == <<"!ValueError">>

\* ------------------------------------------------------------------------
\* Python built-ins used by the program
\* ------------------------------------------------------------------------
DecDigits == <<"0","1","2","3","4","5","6","7","8","9">>
HexDigits == <<"0","1","2","3","4","5","6","7","8","9","A","B","C","D","E","F">>
HexDigitsLower == <<"0","1","2","3","4","5","6","7","8","9","a","b","c","d","e","f">>
UpperLetters == {"A","B","C","D","E","F","G","H","I","J","K","L","M","N","O","P","Q","R","S","T","U","V","W","X","Y","Z"}

Min(a, b) == IF a < b THEN a ELSE b

\* s[lo:hi] for 0 <= lo, 0 <= hi (Python slice, 0-based, clipped to the string)
py_slice(s, lo, hi) == SubSeq(s, Min(lo, Len(s)) + 1, Min(hi, Len(s)))

\* value of one digit in the given base, -1 when it is no digit of that base
digit_val(c, base) ==
    IF \E i \in 1..base : HexDigits[i] = c
    THEN (CHOOSE i \in 1..base : HexDigits[i] = c) - 1
    ELSE IF \E i \in 1..base : HexDigitsLower[i] = c
    THEN (CHOOSE i \in 1..base : HexDigitsLower[i] = c) - 1
    ELSE -1

RECURSIVE py_int_acc(_, _, _)
py_int_acc(s, base, acc) ==
    IF s = << >> THEN acc
    ELSE IF digit_val(Head(s), base) = -1 THEN -1
    ELSE py_int_acc(Tail(s), base, acc * base + digit_val(Head(s), base))

\* int(s, base) on an unsigned digit string; -1 stands for ValueError
py_int(s, base) == IF s = << >> THEN -1 ELSE py_int_acc(s, base, 0)

RECURSIVE py_str(_)
\* str(n) for n >= 0
py_str(n) == IF n < 10 THEN <<DecDigits[n + 1]>>
             ELSE py_str(n \div 10) \o <<DecDigits[(n % 10) + 1]>>

RECURSIVE py_hex(_)
\* "%X" % n for n >= 0
py_hex(n) == IF n < 16 THEN <<HexDigits[n + 1]>>
             ELSE py_hex(n \div 16) \o <<HexDigits[(n % 16) + 1]>>

\* "%X" % n: the format without the zero padding
py_fmt_X(n) == py_hex(n)

\* "%02X" % n for n >= 0: at least two digits, zero padded, never truncated
py_fmt_02X(n) == IF Len(py_hex(n)) < 2 THEN <<"0">> \o py_hex(n) ELSE py_hex(n)

RECURSIVE py_split_acc(_, _, _)
py_split_acc(s, sep, cur) ==
    IF s = << >> THEN <<cur>>
    ELSE IF Head(s) = sep THEN <<cur>> \o py_split_acc(Tail(s), sep, << >>)
    ELSE py_split_acc(Tail(s), sep, Append(cur, Head(s)))

\* s.split(sep) for a one-character separator
py_split(s, sep) == py_split_acc(s, sep, << >>)

RECURSIVE py_join(_, _)
\* sep.join(parts)
py_join(sep, parts) ==
    IF parts = << >> THEN << >>
    ELSE IF Len(parts) = 1 THEN parts[1]
    ELSE parts[1] \o sep \o py_join(sep, Tail(parts))

\* s.startswith(p)
py_startswith(s, p) == Len(s) >= Len(p) /\ SubSeq(s, 1, Len(p)) = p

\* s.find(sub): 0-based index of the first occurrence, -1 when there is none
py_find(s, sub) ==
    IF \E i \in 1..(Len(s) - Len(sub) + 1) : SubSeq(s, i, i + Len(sub) - 1) = sub
    THEN (CHOOSE i \in 1..(Len(s) - Len(sub) + 1) :
            /\ SubSeq(s, i, i + Len(sub) - 1) = sub
            /\ \A j \in 1..(i - 1) : SubSeq(s, j, j + Len(sub) - 1) # sub) - 1
    ELSE -1

RECURSIVE py_replace(_, _, _)
\* s.replace(old, new): every non-overlapping occurrence, left to right
py_replace(s, old, new) ==
    IF py_find(s, old) = -1 THEN s
    ELSE SubSeq(s, 1, py_find(s, old)) \o new
         \o py_replace(SubSeq(s, py_find(s, old) + Len(old) + 1, Len(s)), old, new)

RECURSIVE py_count(_, _)
\* s.count(sub): the number of non-overlapping occurrences
py_count(s, sub) ==
    IF py_find(s, sub) = -1 THEN 0
    ELSE 1 + py_count(SubSeq(s, py_find(s, sub) + Len(sub) + 1, Len(s)), sub)

\* os.path.basename(path): what follows the last '/'
os_path_basename(path) ==
    IF \E i \in 1..Len(path) : path[i] = "/"
    THEN SubSeq(path, (CHOOSE i \in 1..Len(path) :
                         path[i] = "/" /\ \A j \in (i + 1)..Len(path) : path[j] # "/") + 1,
                Len(path))
    ELSE path

\* os.path.join(a, b) for a relative b
os_path_join(a, b) == IF a # << >> /\ a[Len(a)] = "/" THEN a \o b ELSE a \o <<"/">> \o b

\* ------------------------------------------------------------------------
\* Identifier codec
\* ------------------------------------------------------------------------
hex2ip_octets(ip_hex) ==
    <<py_int(py_slice(ip_hex, 0, 2), 16), py_int(py_slice(ip_hex, 2, 4), 16),
      py_int(py_slice(ip_hex, 4, 6), 16), py_int(py_slice(ip_hex, 6, 8), 16)>>

hex2ip(ip_hex) ==
    IF \E i \in 1..4 : hex2ip_octets(ip_hex)[i] = -1 THEN ValueError
    ELSE py_join(<<".">>, [i \in 1..4 |-> py_str(hex2ip_octets(ip_hex)[i])])

ip2hex(ip_addr) ==
    LET parts == py_split(ip_addr, ".") IN
    IF \E i \in 1..Len(parts) : py_int(parts[i], 10) = -1 THEN ValueError
    ELSE py_join(<< >>, [i \in 1..Len(parts) |-> py_fmt_02X(py_int(parts[i], 10))])

\* node_re = ^([A-Z0-9]{8})$ applied with match()
node_re_match(s) ==
    /\ Len(s) = 8
    /\ \A i \in 1..8 : s[i] \in UpperLetters \/ (\E d \in 1..10 : DecDigits[d] = s[i])

\* ------------------------------------------------------------------------
\* Configuration (load_config) and the universe of the model
\* ------------------------------------------------------------------------
conf_overlay_dir == <<"/","o">>
conf_root_dir == <<"/","r">>
\* start_fsid of the configuration file; the constructor's own default
START_FSID == 100000

Threads == 1..NumThreads

\* names that can appear in the node directory and the overlay directory
Entries == {ID1, ID_OLD, ID_BAD, STRAY}

TemplateFiles == {TPL0, TPL1, TPL2}

ReadPaths == {P_NODE1, P_NODE_OLD, P_NODE_BAD, P_DEEP, P_NOPE}

ListPaths == {P_ROOT, P_BYIP, P_NOPE}

AllPaths == {P_ROOT, P_BYIP, P_BYIP_SLASH, P_BYIP_ADDR, P_BYIP_NAME, P_BYIPX,
             P_NODE1, P_NODE_OLD, P_NODE_BAD, P_DEEP, P_NOPE}

\* (length, offset) pairs offered to read
ReadWindows == {<<4, 0>>, <<64, 0>>, <<4, 3>>, <<4, 64>>}

VARIABLES
    phase,                \* "init", "serving" or "fatal" (PXEBootError at startup)
    template_file,        \* content of the file conf_pxe_template names
    pxe_template,         \* self.pxe_template
    pxe_template_length,  \* self.pxe_template_length
    next_fsid,            \* self._next_fsid
    node_dir,             \* conf_node_dir: entry name -> "absent" | "dir" | "file"
    overlay_dir,          \* conf_overlay_dir: the names that exist as directories
    mounted,              \* mount table: the node-directory entries that are mount points
    mounts_issued,        \* bag of the mount commands handed to os.system
    exports_issued,       \* bag of the exportfs commands handed to os.system
    fsids_returned,       \* bag of the values get_next_fsid has returned
    th,                   \* per dispatcher thread: the running handler's frame
    calls,                \* number of handler calls started
    c_stage, c_in, c_mid, c_out   \* codec harness: input, intermediate, output

fs_vars == <<node_dir, overlay_dir, mounted, mounts_issued, exports_issued>>

obj_vars == <<phase, template_file, pxe_template, pxe_template_length, next_fsid, fsids_returned>>

codec_vars == <<c_stage, c_in, c_mid, c_out>>

vars == <<phase, template_file, pxe_template, pxe_template_length, next_fsid,
          node_dir, overlay_dir, mounted, mounts_issued, exports_issued,
          fsids_returned, th, calls, c_stage, c_in, c_mid, c_out>>

NoRet == [kind |-> "none", val |-> << >>]

IdleThread == [pc |-> "idle", op |-> "none", path |-> << >>, length |-> 0, offset |-> 0,
               node |-> << >>, fsid |-> 0, tmp |-> 0,
               listed |-> {}, entries |-> {}, nodes |-> {}, ret |-> NoRet]

\* ------------------------------------------------------------------------
\* Template renderer
\* ------------------------------------------------------------------------
\* load_template: -1 stands for PXEBootError, otherwise pxe_template_length
load_template_length(text) ==
    IF py_find(text, MARKER) = -1 THEN -1
    ELSE Len(text) - Len(MARKER) + 8

get_pxe_data(template, node) == py_replace(template, MARKER, node)

\* ------------------------------------------------------------------------
\* Startup
\* ------------------------------------------------------------------------
\* the state before PXEBootFS() is constructed: the files and directories the
\* process finds.  ID_OLD may be left over from an earlier process lifetime,
\* as a bare directory or as a live mount; STRAY may be a plain file.
Init ==
    /\ phase = "init"
    /\ template_file \in TemplateFiles
    /\ pxe_template = << >>
    /\ pxe_template_length = 0
    /\ next_fsid = 0
    /\ \E old \in {"absent", "orphan", "mounted"}, stray \in {"absent", "file"} :
         /\ node_dir = [e \in Entries |->
                          IF e = ID_OLD /\ old # "absent" THEN "dir"
                          ELSE IF e = STRAY THEN stray ELSE "absent"]
         /\ overlay_dir = IF old = "absent" THEN {} ELSE {ID_OLD}
         /\ mounted = IF old = "mounted" THEN {ID_OLD} ELSE {}
    /\ mounts_issued = EmptyBag
    /\ exports_issued = EmptyBag
    /\ fsids_returned = EmptyBag
    /\ th = [t \in Threads |-> IdleThread]
    /\ calls = 0
    /\ c_stage = "off" /\ c_in = << >> /\ c_mid = << >> /\ c_out = << >>

\* PXEBootFS.__init__: load_config, then load_template; a PXEBootError ends
\* the process before it serves a request
Construct ==
    /\ phase = "init"
    /\ next_fsid' = START_FSID
    /\ IF load_template_length(template_file) = -1
       THEN /\ phase' = "fatal"
            /\ pxe_template' = template_file
            /\ UNCHANGED pxe_template_length
       ELSE /\ phase' = "serving"
            /\ pxe_template' = template_file
            /\ pxe_template_length' = load_template_length(template_file)
    /\ UNCHANGED <<template_file, fsids_returned, fs_vars, th, calls, codec_vars>>

\* a handler call may start on an idle thread of a serving process
CanStart(t) == phase = "serving" /\ th[t].pc = "idle" /\ calls < MaxCalls

Frame(t, op, path) == [IdleThread EXCEPT !.op = op, !.path = path]

Done(frame, kind, val) == [frame EXCEPT !.pc = "done", !.ret = [kind |-> kind, val |-> val]]

\* the handler's result has been handed back to the dispatcher
Return(t) ==
    /\ th[t].pc = "done"
    /\ th' = [th EXCEPT ![t] = IdleThread]
    /\ UNCHANGED <<obj_vars, fs_vars, calls, codec_vars>>

\* ------------------------------------------------------------------------
\* Node lifecycle: setup_node and get_next_fsid, reached from read
\* ------------------------------------------------------------------------
node_path(node) == os_path_join(conf_node_dir, node)

overlay_path(node) == os_path_join(conf_overlay_dir, node)

\* str(err) of the OSError os.mkdir raises on an existing path
EEXIST == <<"[Errno 17] File exists">>

\* read, up to setup_node's test of the mount-point directory
\* (basename, node_re.match, os.path.exists(node_path))
Read(t, path) ==
    /\ CanStart(t)
    /\ calls' = calls + 1
    /\ LET node == os_path_basename(path)
           f == [Frame(t, "read", path) EXCEPT !.node = node]
       IN th' = [th EXCEPT ![t] =
                   IF ~ node_re_match(node) THEN Done(f, "bytes", << >>)
                   ELSE IF node_dir[node] = "absent" THEN [f EXCEPT !.pc = "L164"]
                   ELSE [f EXCEPT !.pc = "L167"]]
    /\ UNCHANGED <<obj_vars, fs_vars, codec_vars>>

\* os.mkdir(node_path); its OSError is caught by read and returned as text
SetupMkdirNode(t) ==
    /\ th[t].pc = "L164"
    /\ IF node_dir[th[t].node] = "absent"
       THEN /\ node_dir' = [node_dir EXCEPT ![th[t].node] = "dir"]
            /\ th' = [th EXCEPT ![t].pc = "L167"]
       ELSE /\ th' = [th EXCEPT ![t] = Done(@, "errtext", EEXIST)]
            /\ UNCHANGED node_dir
    /\ UNCHANGED <<obj_vars, overlay_dir, mounted, mounts_issued, exports_issued,
                   calls, codec_vars>>

\* os.path.exists(overlay_path)
SetupExistsOverlay(t) ==
    /\ th[t].pc = "L167"
    /\ th' = [th EXCEPT ![t].pc = IF th[t].node \in overlay_dir THEN "L172" ELSE "L168"]
    /\ UNCHANGED <<obj_vars, fs_vars, calls, codec_vars>>

\* os.mkdir(overlay_path)
SetupMkdirOverlay(t) ==
    /\ th[t].pc = "L168"
    /\ IF th[t].node \notin overlay_dir
       THEN /\ overlay_dir' = overlay_dir \cup {th[t].node}
            /\ th' = [th EXCEPT ![t].pc = "L172"]
       ELSE /\ th' = [th EXCEPT ![t] = Done(@, "errtext", EEXIST)]
            /\ UNCHANGED overlay_dir
    /\ UNCHANGED <<obj_vars, node_dir, mounted, mounts_issued, exports_issued,
                   calls, codec_vars>>

\* os.path.ismount(node_path)
SetupIsMount(t) ==
    /\ th[t].pc = "L172"
    /\ th' = [th EXCEPT ![t].pc = IF th[t].node \in mounted THEN "L238" ELSE "L173"]
    /\ UNCHANGED <<obj_vars, fs_vars, calls, codec_vars>>

\* the mount command with the overlay directory itself as the writable branch
mount_command_shared_overlay(node) ==
    [ro |-> conf_root_dir, rw |-> conf_overlay_dir, mnt |-> node_path(node)]

\* the mount command as setup_node formats it
mount_command(node) == [ro |-> conf_root_dir, rw |-> overlay_path(node), mnt |-> node_path(node)]

\* os.system('mount -t aufs ...'): the exit status is not looked at.  The
\* mount takes effect only on an existing directory with an existing
\* overlay branch, and the mount subsystem may refuse it (ok = FALSE).
\* mounts_issued keeps each command with the exit status the caller drops.
SetupMount(t) ==
    /\ th[t].pc = "L173"
    /\ \E ok \in BOOLEAN :
         LET done == ok /\ node_dir[th[t].node] = "dir" /\ th[t].node \in overlay_dir IN
         /\ mounts_issued' = mounts_issued (+) SetToBag({
                [cmd |-> mount_command(th[t].node), status |-> IF done THEN 0 ELSE 1]})
         /\ mounted' = IF done THEN mounted \cup {th[t].node} ELSE mounted
    /\ th' = [th EXCEPT ![t].pc = "L238"]
    /\ UNCHANGED <<obj_vars, node_dir, overlay_dir, exports_issued, calls, codec_vars>>

\* get_next_fsid: fsid = self._next_fsid
GetNextFsidRead(t) ==
    /\ th[t].pc = "L238"
    /\ th' = [th EXCEPT ![t].fsid = next_fsid, ![t].pc = "L239"]
    /\ UNCHANGED <<obj_vars, fs_vars, calls, codec_vars>>

\* get_next_fsid: self._next_fsid += 1, the load of the attribute
GetNextFsidLoad(t) ==
    /\ th[t].pc = "L239"
    /\ th' = [th EXCEPT ![t].tmp = next_fsid, ![t].pc = "L239s"]
    /\ UNCHANGED <<obj_vars, fs_vars, calls, codec_vars>>

\* get_next_fsid with the store of the loaded value itself, the increment lost
GetNextFsidStoreStale(t) ==
    /\ th[t].pc = "L239s"
    /\ next_fsid' = th[t].tmp
    /\ fsids_returned' = fsids_returned (+) SetToBag({th[t].fsid})
    /\ th' = [th EXCEPT ![t].pc = "L177"]
    /\ UNCHANGED <<phase, template_file, pxe_template, pxe_template_length,
                   fs_vars, calls, codec_vars>>

\* get_next_fsid: self._next_fsid += 1, the store of the sum; return fsid
GetNextFsidStore(t) ==
    /\ th[t].pc = "L239s"
    /\ next_fsid' = th[t].tmp + 1
    /\ fsids_returned' = fsids_returned (+) SetToBag({th[t].fsid})
    /\ th' = [th EXCEPT ![t].pc = "L177"]
    /\ UNCHANGED <<phase, template_file, pxe_template, pxe_template_length,
                   fs_vars, calls, codec_vars>>

\* the exportfs command with the address of a fixed node in place of the
\* address of the node being set up
export_command_fixed_ip(node, fsid) ==
    [mnt |-> node_path(node), fsid |-> fsid, ip |-> hex2ip(ID_OLD)]

\* the exportfs command as setup_node formats it
export_command(node, fsid) == [mnt |-> node_path(node), fsid |-> fsid, ip |-> hex2ip(node)]

\* s[offset:offset+length] of the rendered template
read_window(template, node, length, offset) ==
    py_slice(get_pxe_data(template, node), offset, offset + length)

\* hex2ip(node) and os.system('exportfs ...'), then read's return of the
\* window of get_pxe_data(node).  A ValueError of hex2ip is no OSError: it
\* escapes read before the export is issued.
SetupExport(t, length, offset) ==
    /\ th[t].pc = "L177"
    /\ IF hex2ip(th[t].node) = ValueError
       THEN /\ th' = [th EXCEPT ![t] = Done(@, "raise", ValueError)]
            /\ UNCHANGED exports_issued
       ELSE /\ exports_issued' = exports_issued
                                   (+) SetToBag({export_command(th[t].node, th[t].fsid)})
            /\ th' = [th EXCEPT ![t] = Done([@ EXCEPT !.length = length, !.offset = offset],
                         "bytes", read_window(pxe_template, th[t].node, length, offset))]
    /\ UNCHANGED <<obj_vars, node_dir, overlay_dir, mounted, mounts_issued, calls, codec_vars>>

\* ------------------------------------------------------------------------
\* Node listing: get_node_list, get_ip_list, readdir
\* ------------------------------------------------------------------------
DOT == <<".">>
DOTDOT == <<".", ".">>
OSError == <<"!OSError">>

\* os.listdir(conf_node_dir)
os_listdir(nd) == {e \in Entries : nd[e] # "absent"}

\* the loop's branches with the mount test replaced by the directory test
gnl_branch_isdir(e, nd, mnt) ==
    IF nd[e] = "dir" THEN "append"
    ELSE IF e \in mnt THEN "rmdir"
    ELSE "skip"

\* the branch get_node_list takes for one entry: ismount, else isdir
gnl_branch(e, nd, mnt) ==
    IF e \in mnt THEN "append"
    ELSE IF nd[e] = "dir" THEN "rmdir"
    ELSE "skip"

\* os.rmdir succeeds on a directory that is no mount point (the directories
\* of the node directory are created empty and stay empty under a mount)
os_rmdir_ok(e, nd, mnt) == nd[e] = "dir" /\ e \notin mnt

RECURSIVE get_node_list(_, _, _, _)
\* get_node_list run without interruption over the listed entries, taken in
\* the order of the sequence: the names returned and the node directory it
\* leaves, or the OSError of a failing rmdir
get_node_list(order, nodes, nd, mnt) ==
    IF order = << >> THEN [raised |-> FALSE, nodes |-> nodes, node_dir |-> nd]
    ELSE IF gnl_branch(Head(order), nd, mnt) = "append"
    THEN get_node_list(Tail(order), nodes \cup {Head(order)}, nd, mnt)
    ELSE IF gnl_branch(Head(order), nd, mnt) = "rmdir"
    THEN IF os_rmdir_ok(Head(order), nd, mnt)
         THEN get_node_list(Tail(order), nodes, [nd EXCEPT ![Head(order)] = "absent"], mnt)
         ELSE [raised |-> TRUE, nodes |-> nodes, node_dir |-> nd]
    ELSE get_node_list(Tail(order), nodes, nd, mnt)

\* readdir of /by-ip lets the ValueError of get_ip_list's hex2ip escape
readdir_raises(path, nodes) ==
    path = P_BYIP /\ \E n \in nodes : hex2ip(os_path_basename(n)) = ValueError

\* readdir's entries for a path, given the nodes get_node_list returned
readdir_entries(path, nodes) ==
    IF path = P_ROOT THEN {DOT, DOTDOT, BY_IP} \cup nodes
    ELSE IF path = P_BYIP
    THEN {DOT, DOTDOT} \cup {hex2ip(os_path_basename(n)) : n \in nodes}
    ELSE {DOT, DOTDOT}

\* readdir up to get_node_list's os.listdir; other paths list '.' and '..'
ReadDir(t, path) ==
    /\ CanStart(t)
    /\ calls' = calls + 1
    /\ LET f == Frame(t, "readdir", path) IN
       th' = [th EXCEPT ![t] =
                IF path = P_ROOT \/ path = P_BYIP
                THEN [f EXCEPT !.pc = "L139", !.listed = os_listdir(node_dir),
                               !.entries = os_listdir(node_dir)]
                ELSE Done(f, "entries", readdir_entries(path, {}))]
    /\ UNCHANGED <<obj_vars, fs_vars, codec_vars>>

\* one turn of get_node_list's loop: ismount / isdir on the next entry
\* (os.listdir gives the entries in no particular order)
GnlCheck(t) ==
    /\ th[t].pc = "L139"
    /\ \E e \in th[t].entries :
         LET b == gnl_branch(e, node_dir, mounted) IN
         th' = [th EXCEPT ![t] =
                  IF b = "append" THEN [@ EXCEPT !.nodes = @ \cup {e}, !.entries = @ \ {e}]
                  ELSE IF b = "rmdir" THEN [@ EXCEPT !.node = e, !.entries = @ \ {e},
                                                     !.pc = "L144"]
                  ELSE [@ EXCEPT !.entries = @ \ {e}]]
    /\ UNCHANGED <<obj_vars, fs_vars, calls, codec_vars>>

\* os.rmdir(ndir); its OSError escapes get_node_list and readdir
GnlRmdir(t) ==
    /\ th[t].pc = "L144"
    /\ IF os_rmdir_ok(th[t].node, node_dir, mounted)
       THEN /\ node_dir' = [node_dir EXCEPT ![th[t].node] = "absent"]
            /\ th' = [th EXCEPT ![t].pc = "L139"]
       ELSE /\ th' = [th EXCEPT ![t] = Done(@, "raise", OSError)]
            /\ UNCHANGED node_dir
    /\ UNCHANGED <<obj_vars, overlay_dir, mounted, mounts_issued, exports_issued,
                   calls, codec_vars>>

\* get_node_list returns; readdir yields its entries
GnlReturn(t) ==
    /\ th[t].pc = "L139"
    /\ th[t].entries = {}
    /\ th' = [th EXCEPT ![t] =
                IF readdir_raises(th[t].path, th[t].nodes)
                THEN Done(@, "raise", ValueError)
                ELSE Done(@, "entries", readdir_entries(th[t].path, th[t].nodes))]
    /\ UNCHANGED <<obj_vars, fs_vars, calls, codec_vars>>

\* ------------------------------------------------------------------------
\* Handlers that only look at the path: getattr, open, readlink
\* ------------------------------------------------------------------------
ENOENT == [st_mode |-> "ENOENT", st_size |-> 0, st_nlink |-> 0]

getattr(path, template_length) ==
    IF path = P_ROOT \/ path = PFX_BYIP
    THEN [st_mode |-> "S_IFDIR", st_size |-> 4096, st_nlink |-> 2]
    ELSE IF py_startswith(path, PFX_BYIP_SLASH) /\ Len(path) > Len(PFX_BYIP)
    THEN [st_mode |-> "S_IFLNK", st_size |-> 4096, st_nlink |-> 2]
    ELSE IF node_re_match(os_path_basename(path))
    THEN [st_mode |-> "S_IFREG", st_size |-> template_length, st_nlink |-> 1]
    ELSE ENOENT

\* open without the shape check
open_any(path) == 0

open(path) == IF node_re_match(os_path_basename(path)) THEN 0 ELSE -1

readlink(path) ==
    IF py_startswith(path, PFX_BYIP)
    THEN IF ip2hex(os_path_basename(path)) = ValueError THEN ValueError
         ELSE os_path_join(conf_node_dir, ip2hex(os_path_basename(path)))
    ELSE DOT

GetAttr(t, path) ==
    /\ CanStart(t)
    /\ calls' = calls + 1
    /\ th' = [th EXCEPT ![t] = Done(Frame(t, "getattr", path), "stat",
                                    getattr(path, pxe_template_length))]
    /\ UNCHANGED <<obj_vars, fs_vars, codec_vars>>

Open(t, path) ==
    /\ CanStart(t)
    /\ calls' = calls + 1
    /\ th' = [th EXCEPT ![t] = Done(Frame(t, "open", path), "int", open(path))]
    /\ UNCHANGED <<obj_vars, fs_vars, codec_vars>>

ReadLink(t, path) ==
    /\ CanStart(t)
    /\ calls' = calls + 1
    /\ th' = [th EXCEPT ![t] =
                IF readlink(path) = ValueError
                THEN Done(Frame(t, "readlink", path), "raise", ValueError)
                ELSE Done(Frame(t, "readlink", path), "target", readlink(path))]
    /\ UNCHANGED <<obj_vars, fs_vars, codec_vars>>

\* ------------------------------------------------------------------------
\* The filesystem process, calls delivered one at a time
\* ------------------------------------------------------------------------
Next ==
    \/ Construct
    \/ \E path \in ReadPaths : Read(1, path)
    \/ SetupMkdirNode(1)
    \/ SetupExistsOverlay(1)
    \/ SetupMkdirOverlay(1)
    \/ SetupIsMount(1)
    \/ SetupMount(1)
    \/ GetNextFsidRead(1)
    \/ GetNextFsidLoad(1)
    \/ GetNextFsidStore(1)
    \/ \E w \in ReadWindows : SetupExport(1, w[1], w[2])
    \/ \E path \in ListPaths : ReadDir(1, path)
    \/ GnlCheck(1)
    \/ GnlRmdir(1)
    \/ GnlReturn(1)
    \/ \E path \in AllPaths : GetAttr(1, path)
    \/ \E path \in AllPaths : Open(1, path)
    \/ \E path \in AllPaths : ReadLink(1, path)
    \/ Return(1)

Spec == Init /\ [][Next]_vars

\* ------------------------------------------------------------------------
\* The filesystem process, reads and listings delivered concurrently
\* ------------------------------------------------------------------------
ConcReadPaths == {P_NODE1, P_NODE_OLD}

ConcListPaths == {P_ROOT, P_BYIP}

ConcWindows == {<<4, 0>>}

InitConc == Init /\ template_file = TPL1 /\ node_dir[STRAY] = "file"

NextConc ==
    \/ Construct
    \/ \E t \in Threads, path \in ConcReadPaths : Read(t, path)
    \/ \E t \in Threads : SetupMkdirNode(t)
    \/ \E t \in Threads : SetupExistsOverlay(t)
    \/ \E t \in Threads : SetupMkdirOverlay(t)
    \/ \E t \in Threads : SetupIsMount(t)
    \/ \E t \in Threads : SetupMount(t)
    \/ \E t \in Threads : GetNextFsidRead(t)
    \/ \E t \in Threads : GetNextFsidLoad(t)
    \/ \E t \in Threads : GetNextFsidStore(t)
    \/ \E t \in Threads, w \in ConcWindows : SetupExport(t, w[1], w[2])
    \/ \E t \in Threads, path \in ConcListPaths : ReadDir(t, path)
    \/ \E t \in Threads : GnlCheck(t)
    \/ \E t \in Threads : GnlRmdir(t)
    \/ \E t \in Threads : GnlReturn(t)
    \/ \E t \in Threads : Return(t)

SpecConc == InitConc /\ [][NextConc]_vars

\* ------------------------------------------------------------------------
\* The codec on its own: every sampled address is encoded and decoded back,
\* every sampled identifier is decoded and encoded back
\* ------------------------------------------------------------------------
OctetSamples == {0, 1, 10, 16, 168, 192, 255}

PairSamples == {<<"0","0">>, <<"0","A">>, <<"C","0">>, <<"F","F">>, <<"0","G">>, <<"Z","9">>}

dotted_quad(o1, o2, o3, o4) == py_join(<<".">>, <<py_str(o1), py_str(o2), py_str(o3), py_str(o4)>>)

CodecAddrs == {dotted_quad(o1, o2, o3, o4) : o1 \in OctetSamples, o2 \in OctetSamples,
                                              o3 \in OctetSamples, o4 \in OctetSamples}

CodecIds == {p1 \o p2 \o p3 \o p4 : p1 \in PairSamples, p2 \in PairSamples,
                                    p3 \in PairSamples, p4 \in PairSamples}

InitCodec ==
    /\ phase = "init"
    /\ template_file = TPL1
    /\ pxe_template = << >>
    /\ pxe_template_length = 0
    /\ next_fsid = 0
    /\ node_dir = [e \in Entries |-> "absent"]
    /\ overlay_dir = {}
    /\ mounted = {}
    /\ mounts_issued = EmptyBag
    /\ exports_issued = EmptyBag
    /\ fsids_returned = EmptyBag
    /\ th = [t \in Threads |-> IdleThread]
    /\ calls = 0
    /\ \/ c_stage = "addr" /\ c_in \in CodecAddrs
       \/ c_stage = "id" /\ c_in \in {s \in CodecIds : node_re_match(s)}
    /\ c_mid = << >>
    /\ c_out = << >>

\* ip2hex(a)
CodecEncode ==
    /\ c_stage = "addr"
    /\ c_mid' = ip2hex(c_in)
    /\ c_stage' = "addr_hex"
    /\ UNCHANGED <<c_in, c_out, obj_vars, fs_vars, th, calls>>

\* hex2ip(ip2hex(a))
CodecDecodeBack ==
    /\ c_stage = "addr_hex"
    /\ c_out' = IF c_mid = ValueError THEN ValueError ELSE hex2ip(c_mid)
    /\ c_stage' = "addr_done"
    /\ UNCHANGED <<c_in, c_mid, obj_vars, fs_vars, th, calls>>

\* hex2ip(s)
CodecDecode ==
    /\ c_stage = "id"
    /\ c_mid' = hex2ip(c_in)
    /\ c_stage' = "id_ip"
    /\ UNCHANGED <<c_in, c_out, obj_vars, fs_vars, th, calls>>

\* ip2hex(hex2ip(s)); the ValueError of hex2ip leaves nothing to encode
CodecEncodeBack ==
    /\ c_stage = "id_ip"
    /\ c_out' = IF c_mid = ValueError THEN ValueError ELSE ip2hex(c_mid)
    /\ c_stage' = "id_done"
    /\ UNCHANGED <<c_in, c_mid, obj_vars, fs_vars, th, calls>>

NextCodec == CodecEncode \/ CodecDecodeBack \/ CodecDecode \/ CodecEncodeBack

SpecCodec == InitCodec /\ [][NextCodec]_vars

\* ------------------------------------------------------------------------
\* Properties
\* ------------------------------------------------------------------------
ReadDone(t) == th[t].pc = "done" /\ th[t].op = "read"

ListDone(t) == th[t].pc = "done" /\ th[t].op = "readdir" /\ th[t].path \in {P_ROOT, P_BYIP}

\* the number of successful mount commands issued at the mount point of node n
MountsDoneAt(n) == CopiesIn([cmd |-> mount_command(n), status |-> 0], mounts_issued)

\* every order in which os.listdir can hand out the entries of a set
Orders(S) == {f \in [1..Cardinality(S) -> S] : \A i, j \in 1..Cardinality(S) : f[i] = f[j] => i = j}

\* C1: no two calls of get_next_fsid return the same identifier, and no two
\* exportfs commands are issued with the same fsid, whatever the interleaving
\* of the reads that allocate them.
C1_FsidNeverReused ==
    /\ \A f \in BagToSet(fsids_returned) : CopiesIn(f, fsids_returned) = 1
    /\ \A e1, e2 \in BagToSet(exports_issued) :
         /\ CopiesIn(e1, exports_issued) = 1
         /\ e1.fsid = e2.fsid => e1 = e2

\* C2: concurrent reads of one identifier whose node is not yet mounted lead
\* to one mount of that node: no two of them carry out the mount, each
\* having seen the mount point unmounted.
C2_OneMountPerNode == \A n \in Entries : MountsDoneAt(n) <= 1

\* C3: no read returns the text of a directory-creation error: os.mkdir on a
\* directory a concurrent read has just created is a no-op.
C3_NoMkdirErrorText == \A t \in Threads : ReadDone(t) => th[t].ret.kind # "errtext"

C5_FirstReadReturnsWindow ==
    \A t \in Threads :
        (ReadDone(t) /\ calls = 1 /\ node_re_match(th[t].node) /\ th[t].node # ID_OLD) =>
            /\ th[t].ret.kind = "bytes"
            /\ th[t].ret.val = read_window(pxe_template, th[t].node, th[t].length, th[t].offset)
            /\ Len(th[t].ret.val) = IF th[t].offset < pxe_template_length
                                    THEN Min(th[t].length, pxe_template_length - th[t].offset)
                                    ELSE 0

\* C6: for the template a serving process has loaded, the rendering of every
\* 8-character identifier has length pxe_template_length.
C6_RenderHasTemplateLength ==
    phase = "serving" =>
        \A id \in {ID1, ID_OLD, ID_BAD} : Len(get_pxe_data(pxe_template, id)) = pxe_template_length

\* C7: startup fails for every template whose number of markers is not one;
\* the process serves only with a template that holds exactly one marker.
C7_ServesOnlyOneMarker ==
    /\ phase = "serving" => py_count(template_file, MARKER) = 1
    /\ phase = "fatal" => py_count(template_file, MARKER) # 1

\* C8: for a dotted quad a of four decimal octets, hex2ip(ip2hex(a)) = a,
\* and ip2hex(a) is 8 uppercase hexadecimal characters, two per octet, the
\* first octet of a first.
C8_AddressRoundTrip ==
    /\ c_stage \in {"addr_hex", "addr_done"} =>
         /\ Len(c_mid) = 8
         /\ \A i \in 1..8 : \E d \in 1..16 : HexDigits[d] = c_mid[i]
         /\ \A i \in 1..4 : py_int(SubSeq(c_mid, 2 * i - 1, 2 * i), 16)
                              = py_int(py_split(c_in, ".")[i], 10)
    /\ c_stage = "addr_done" => c_out = c_in

\* 192.168.1.1 has been encoded to C0A80101 and decoded back
C8_Witness ==
    /\ c_stage = "addr_done"
    /\ c_in = <<"1","9","2",".","1","6","8",".","1",".","1">>
    /\ c_mid = <<"C","0","A","8","0","1","0","1">>
    /\ c_out = c_in

\* C9: for every string s of the shape [A-Z0-9]{8}, hex2ip succeeds on s and
\* ip2hex(hex2ip(s)) = s.
C9_IdentifierRoundTrip ==
    /\ c_stage \in {"id_ip", "id_done"} => c_mid # ValueError
    /\ c_stage = "id_done" => c_out = c_in

\* a dotted quad: four dot-separated decimal numbers, each 0..255
is_dotted_quad(s) ==
    /\ Len(py_split(s, ".")) = 4
    /\ \A i \in 1..4 : LET part == py_split(s, ".")[i] IN
                       /\ py_int(part, 10) \in 0..255
                       /\ part = py_str(py_int(part, 10))

\* the namespace table: the kind of entity each path names
namespace_kind(path) ==
    IF path = P_ROOT \/ path = P_BYIP THEN "S_IFDIR"
    ELSE IF py_startswith(path, PFX_BYIP_SLASH)
            /\ is_dotted_quad(SubSeq(path, Len(PFX_BYIP_SLASH) + 1, Len(path)))
    THEN "S_IFLNK"
    ELSE IF Len(path) = 9 /\ path[1] = "/" /\ node_re_match(SubSeq(path, 2, 9))
    THEN "S_IFREG"
    ELSE "ENOENT"

\* C10: getattr classifies every path as the namespace table does: a
\* directory for / and /by-ip, a symbolic link for /by-ip/<dotted-quad>, a
\* regular file of size pxe_template_length for /<8-char-id>, and ENOENT for
\* every other path.
C10_GetattrFollowsNamespace ==
    \A t \in Threads :
        (th[t].pc = "done" /\ th[t].op = "getattr") =>
            /\ th[t].ret.val.st_mode = namespace_kind(th[t].path)
            /\ th[t].ret.val.st_mode = "S_IFREG" => th[t].ret.val.st_size = pxe_template_length

\* C11: readlink is total: for /by-ip/<addr> with <addr> a dotted quad it
\* returns the node-directory path of ip2hex(addr); for every other path,
\* /by-ip itself and paths that only begin with /by-ip included, it returns
\* the target '.'.
C11_ReadlinkTotal ==
    \A t \in Threads :
        (th[t].pc = "done" /\ th[t].op = "readlink") =>
            /\ th[t].ret.kind = "target"
            /\ th[t].ret.val =
                 IF py_startswith(th[t].path, PFX_BYIP_SLASH)
                    /\ is_dotted_quad(SubSeq(th[t].path, Len(PFX_BYIP_SLASH) + 1, Len(th[t].path)))
                 THEN os_path_join(conf_node_dir,
                          ip2hex(SubSeq(th[t].path, Len(PFX_BYIP_SLASH) + 1, Len(th[t].path))))
                 ELSE DOT

\* C12: a listing of / yields '.', '..', 'by-ip' and the mounted nodes; a
\* listing of /by-ip yields '.', '..' and the dotted quad of each mounted
\* node; neither fails, whatever reads and listings came before.
C12_ListingsShowMountedNodes ==
    \A t \in Threads :
        ListDone(t) =>
            /\ th[t].ret.kind = "entries"
            /\ th[t].path = P_ROOT => th[t].ret.val = {DOT, DOTDOT, BY_IP} \cup mounted
            /\ th[t].path = P_BYIP =>
                   th[t].ret.val = {DOT, DOTDOT} \cup {hex2ip(n) : n \in mounted}

\* C13: every exportfs command issued publishes the mount point of some
\* node X to the one address hex2ip(X): no export pairs the mount point of
\* one client with the address of another.
C13_ExportToOwnAddress ==
    \A e \in BagToSet(exports_issued) :
        /\ is_dotted_quad(e.ip)
        /\ \E n \in Entries : e.mnt = node_path(n) /\ e.ip = hex2ip(n)
        /\ \A n \in Entries : e.mnt = node_path(n) => ip2hex(e.ip) = n

\* two reads running at the same time have each exported their own node
C13_Witness ==
    /\ \E e \in BagToSet(exports_issued) : e.mnt = node_path(ID1)
    /\ \E e \in BagToSet(exports_issued) : e.mnt = node_path(ID_OLD)
    /\ \A t \in Threads : ReadDone(t)

\* C14: every mount command issued at the mount point of node X unions the
\* shared read-only root with X's own overlay directory as the only writable
\* branch; no overlay directory is the writable branch of the mounts of two
\* different nodes.
C14_MountUsesOwnOverlay ==
    /\ \A m \in BagToSet(mounts_issued) :
         /\ m.cmd.ro = conf_root_dir
         /\ \E n \in Entries : m.cmd.mnt = os_path_join(conf_node_dir, n)
                               /\ m.cmd.rw = os_path_join(conf_overlay_dir, n)
    /\ \A m1, m2 \in BagToSet(mounts_issued) : m1.cmd.rw = m2.cmd.rw => m1.cmd.mnt = m2.cmd.mnt

\* the nodes of two reads running at the same time are both mounted
C14_Witness ==
    /\ MountsDoneAt(ID1) >= 1 /\ MountsDoneAt(ID_OLD) >= 1
    /\ {ID1, ID_OLD} \subseteq mounted

\* the read on thread t takes its last step of setup_node, for a node whose
\* name hex2ip can decode
ExportStep(t) == th[t].pc = "L177" /\ th'[t].pc = "done" /\ hex2ip(th[t].node) # ValueError

\* C15: in a sequence of reads of one identifier, a read that finds the
\* mount point mounted issues no mount command, and every read, first or
\* repeated, issues exactly one exportfs command whose fsid differs from the
\* fsid of every export issued before.
C15_RereadSkipsMountReexports ==
    [][ /\ \A t \in Threads :
             (th[t].pc = "L172" /\ th[t].node \in mounted /\ th'[t].pc # "L172")
                 => (th'[t].pc = "L238" /\ mounts_issued' = mounts_issued)
        /\ mounts_issued' # mounts_issued
             => \E t \in Threads : th[t].pc = "L173" /\ th'[t].pc = "L238"
                                   /\ th[t].node \notin mounted
        /\ \A t \in Threads :
             (ReadDone(t)' /\ ~ ReadDone(t) /\ th[t].op = "read"
                 /\ hex2ip(th[t].node) # ValueError) => ExportStep(t)
        /\ \A t \in Threads :
             ExportStep(t) =>
                 \E e \in BagToSet(exports_issued') :
                     /\ exports_issued' = exports_issued (+) SetToBag({e})
                     /\ e.mnt = node_path(th[t].node)
                     /\ \A x \in BagToSet(exports_issued) : x.fsid # e.fsid
        /\ exports_issued' # exports_issued => \E t \in Threads : ExportStep(t)
      ]_vars

\* the second read of 0A0B0C0D has found the node mounted: one mount command
\* and two exports with different fsids have been issued for it
C15_Witness ==
    /\ BagCardinality(mounts_issued) = 1 /\ MountsDoneAt(ID1) = 1
    /\ \E e1, e2 \in BagToSet(exports_issued) :
         e1.mnt = node_path(ID1) /\ e2.mnt = node_path(ID1) /\ e1.fsid # e2.fsid
    /\ \E t \in Threads : ReadDone(t) /\ th[t].node = ID1 /\ calls = 2

\* a mount command for node n has been issued and has failed
MountFailedAt(n) == CopiesIn([cmd |-> mount_command(n), status |-> 1], mounts_issued) >= 1

\* C16: when the mount command fails during a read, the read does not fail:
\* it returns text describing the failure in place of the template bytes.
C16_FailureReturnedAsText ==
    \A t \in Threads :
        (ReadDone(t) /\ calls = 1 /\ MountFailedAt(th[t].node)
            /\ hex2ip(th[t].node) # ValueError) => th[t].ret.kind = "errtext"

\* thread t starts a call of open, getattr or readlink, or a read of a path
\* whose base name does not have the identifier shape
ShapeOnlyCall(t) ==
    /\ th[t].pc = "idle" /\ th'[t].pc # "idle"
    /\ \/ th'[t].op \in {"open", "getattr", "readlink"}
       \/ th'[t].op = "read" /\ ~ node_re_match(os_path_basename(th'[t].path))

C18_ListingSparesNodeInProgress ==
    \A t \in Threads :
        th[t].pc \in {"L167", "L168", "L172", "L173"} => node_dir[th[t].node] = "dir"

\* C19: every exportfs command is issued for a mount point that is an active
\* mount; when the mount command fails, the bare directory is not exported.
C19_ExportOnlyMounted ==
    \A e \in BagToSet(exports_issued) :
        \E n \in mounted : e.mnt = node_path(n)

\* an exportfs command has been issued for the mount point of node n
ExportedAt(n) == \E e \in BagToSet(exports_issued) : e.mnt = node_path(n)

\* C20: after a read of a name node_re accepts, letters outside A-F
\* included, the node is not left with its directories created and its mount
\* active but without an export.
C20_ProvisioningAllOrNothing ==
    \A t \in Threads :
        (ReadDone(t) /\ node_re_match(th[t].node)) =>
            ~ (/\ node_dir[th[t].node] = "dir"
               /\ th[t].node \in overlay_dir
               /\ th[t].node \in mounted
               /\ ~ ExportedAt(th[t].node))

====
